---- MODULE Spec2Model ----
(***************************************************************************)
(* A model of pyar/aggregator.py: the aggregate-id codec (update_id), the  *)
(* seed growth engine (add_one) and the two orchestrators (aggregate,      *)
(* solvate).                                                               *)
(*                                                                         *)
(* Strings are sequences of one-character strings, so that split, int()    *)
(* and the ":03d" format are computed and not assumed.  A Python value     *)
(* that may be a list or a sentinel is a record [kind, items].  A          *)
(* directory is the sequence of the names on its path.                     *)
(***************************************************************************)
EXTENDS Integers, Sequences, FiniteSets, TLC

VARIABLES
    \* ---- arguments (shared by the entry points; one run models one call)
    aggregate_sizes,          \* aggregate: units of each species
    hm_orientations,          \* "auto" or a decimal string
    maximum_number_of_seeds,
    first_pathway,
    number_of_pathways,
    aggregate_size,           \* solvate: number of growth steps asked for
    \* ---- locals of aggregate / solvate
    pc,                       \* position of the running entry point
    number_of_orientations,
    starting_directory,
    cwd,                      \* the process's working directory
    ag_id,
    pathways_to_calculate,
    seed_storage,             \* OrderedDict: sequence of <<key, value>>
    outside_counter,
    inside_counter,
    pathway_index,            \* position of "for i in pathways_to_calculate"
    monomer_index,            \* position of "for this_monomer in i"
    seeds,                    \* solvate / add_one: the seed list
    aggregation_counter,      \* solvate: loop variable
    \* ---- the file system and the observed calls
    dirs,                     \* directories made by the running function
    n_calls,                  \* add_one calls made for the current pathway
    total_calls,              \* add_one calls made in the run
    error,                    \* the exception that ended the run, if any
    set_order,                \* iteration order of the set of permutations
    last_call,                \* arguments of the pathway's latest add_one call
    last_stored,              \* value the pathway last put into seed_storage
    last_popped,              \* key the pathway's latest popitem retired
    stop_seen,                \* an add_one call returned a cancellation sentinel
    exhausted,                \* an add_one call of this pathway returned []
    \* ---- locals of add_one
    seed_count,
    not_converged,
    round,                    \* "i" of "for i in range(10)"
    list_of_optimized_molecules,
    selected_seeds,
    next_index,               \* position of the iterator over selected_seeds
    saved_cwd,                \* add_one's local "cwd"
    ret,                      \* the value add_one returned
    \* ---- what the collaborators were asked and answered
    batches,                  \* optimisation rounds run for the current seed
    loose_reports,            \* <<candidate, status>> of the loose optimisations
    normal_reports,           \* <<structure, status>> of the final pass
    chosen,                   \* what choose_geometries returned
    \* ---- update_id on its own
    current_id,               \* the id the calls of update_id thread through
    first_id,                 \* the id the first call was given
    advances,                 \* the species of every call made so far
    \* ---- the pathway enumeration of separate invocations of aggregate
    invocations               \* per invocation: its window and what it selected

orchestrator_vars ==
    <<aggregate_sizes, hm_orientations, maximum_number_of_seeds, first_pathway,
      number_of_pathways, aggregate_size, pc, number_of_orientations,
      starting_directory, cwd, ag_id, pathways_to_calculate, seed_storage,
      outside_counter, inside_counter, pathway_index, monomer_index, seeds,
      aggregation_counter, dirs, n_calls, total_calls, error, set_order,
      last_call, last_stored, last_popped,
      stop_seen, exhausted>>

add_one_vars ==
    <<seed_count, not_converged, round, list_of_optimized_molecules,
      selected_seeds, next_index, saved_cwd, ret, batches, loose_reports,
      normal_reports, chosen>>

codec_vars == <<current_id, first_id, advances>>

window_vars == <<invocations>>

vars == <<orchestrator_vars, add_one_vars, codec_vars, window_vars>>

-----------------------------------------------------------------------------
(* Bounds of the model *)

MaxSpecies == 2           \* molecules given to aggregate
MaxSize == 2              \* units of one species
MaxUnits == 3             \* units of all species together
MaxFirstPathway == 1
MaxNumberOfPathways == 1
MaxSeedsArg == 2          \* maximum_number_of_seeds
MaxSeeds == 2             \* seeds given to add_one
MaxOrientations == 2      \* orientations asked of generate_orientations
MaxCandidates == 4        \* seeds times orientations in one add_one call
MaxAggregateSize == 7     \* aggregate_size given to solvate

(* Constants of the program *)

InitialOrientations == 8
OrientationStep == 8
OrientationCap == 256
ConvergenceRounds == 10

-----------------------------------------------------------------------------
(* Strings *)

Min(a, b) == IF a < b THEN a ELSE b

DigitChars == <<"0", "1", "2", "3", "4", "5", "6", "7", "8", "9">>

\* string.ascii_lowercase
seed_names ==
    <<"a", "b", "c", "d", "e", "f", "g", "h", "i", "j", "k", "l", "m",
      "n", "o", "p", "q", "r", "s", "t", "u", "v", "w", "x", "y", "z">>

Auto == <<"a", "u", "t", "o">>

RECURSIVE DecimalDigits(_)
DecimalDigits(n) ==
    IF n < 10 THEN <<DigitChars[n + 1]>>
    ELSE Append(DecimalDigits(n \div 10), DigitChars[(n % 10) + 1])

RECURSIVE ZeroPad(_, _)
ZeroPad(s, width) == IF Len(s) >= width THEN s ELSE ZeroPad(<<"0">> \o s, width)

\* "{:03d}".format(n), n >= 0: at least three digits, zero padded
fmt03(n) == ZeroPad(DecimalDigits(n), 3)

IsDigit(c) == \E i \in 1..10 : DigitChars[i] = c

DigitValue(c) == (CHOOSE i \in 1..10 : DigitChars[i] = c) - 1

RECURSIVE int(_)
\* int(s) of a string of decimal digits
int(s) ==
    IF Len(s) = 1 THEN DigitValue(s[1])
    ELSE 10 * int(SubSeq(s, 1, Len(s) - 1)) + DigitValue(s[Len(s)])

RECURSIVE SplitFrom(_, _, _)
SplitFrom(s, sep, cur) ==
    IF s = <<>> THEN <<cur>>
    ELSE IF Head(s) = sep THEN <<cur>> \o SplitFrom(Tail(s), sep, <<>>)
    ELSE SplitFrom(Tail(s), sep, Append(cur, Head(s)))

\* s.split(sep) for a one-character separator
split(s, sep) == SplitFrom(s, sep, <<>>)

-----------------------------------------------------------------------------
(* update_id *)

RECURSIVE update_id_loop_every(_, _, _)
\* the loop without its "if cid == the_monomer": every count raised
update_id_loop_every(parts_of_aid, the_monomer, new_id) ==
    IF parts_of_aid = <<>> THEN new_id
    ELSE update_id_loop_every(
             SubSeq(parts_of_aid, 3, Len(parts_of_aid)), the_monomer,
             new_id \o <<"_">> \o parts_of_aid[1] \o <<"_">>
                    \o fmt03(int(parts_of_aid[2]) + 1))

IsPrefixOf(s, t) == Len(s) <= Len(t) /\ SubSeq(t, 1, Len(s)) = s

RECURSIVE update_id_loop_startswith(_, _, _)
\* the loop with "if the_monomer.startswith(cid)" for "if cid == the_monomer"
update_id_loop_startswith(parts_of_aid, the_monomer, new_id) ==
    IF parts_of_aid = <<>> THEN new_id
    ELSE LET cid == parts_of_aid[1]
             n == parts_of_aid[2]
             d == IF IsPrefixOf(cid, the_monomer) THEN int(n) + 1 ELSE int(n)
         IN update_id_loop_startswith(
                SubSeq(parts_of_aid, 3, Len(parts_of_aid)), the_monomer,
                new_id \o <<"_">> \o cid \o <<"_">> \o fmt03(d))

RECURSIVE update_id_loop(_, _, _)
\* the while loop: two poplefts a turn, the count of the_monomer raised by one
update_id_loop(parts_of_aid, the_monomer, new_id) ==
    IF parts_of_aid = <<>> THEN new_id
    ELSE LET cid == parts_of_aid[1]
             n == parts_of_aid[2]
             d == IF cid = the_monomer THEN int(n) + 1 ELSE int(n)
         IN update_id_loop(SubSeq(parts_of_aid, 3, Len(parts_of_aid)),
                           the_monomer,
                           new_id \o <<"_">> \o cid \o <<"_">> \o fmt03(d))

update_id(aid, the_monomer) ==
    LET parts_of_aid == split(aid, "_")
        prefix == Head(parts_of_aid)
    IN update_id_loop(Tail(parts_of_aid), the_monomer, prefix)

-----------------------------------------------------------------------------
(* Python values *)

List(items) == [kind |-> "list", items |-> items]
StopIterationValue == [kind |-> "StopIteration", items |-> <<>>]
NoneValue == [kind |-> "None", items |-> <<>>]

IsCancelled(v) == v.kind \in {"StopIteration", "None"}

\* a Molecule: the species' monomer (k = 0) or the k-th structure a growth
\* step returned, named after the step's aggregate id
Monomer(name) == [name |-> name, k |-> 0]
Structure(aggregate_id, k) == [name |-> aggregate_id, k |-> k]

Structures(aggregate_id, n) == [k \in 1..n |-> Structure(aggregate_id, k)]

-----------------------------------------------------------------------------
(* add_one, as its callers see it *)

\* Every outcome of add_one(aggregate_id, seeds_arg, n_orient, ..., max_seeds):
\* the value returned, whether the call raised instead, and whether it
\* returned from inside the 'selected' directory.  A stop file may be present
\* at any poll; optimise, remove_similar and choose_geometries may answer
\* anything their contracts allow.
add_one_outcomes(aggregate_id, seeds_arg, n_orient, max_seeds) ==
    LET outcome(v, r, s) == [ret |-> v, raised |-> r, selected |-> s]
        n_seeds == Len(seeds_arg.items)
        n_candidates == n_seeds * n_orient
        at_entry == {outcome(StopIterationValue, FALSE, FALSE)}
        type_error == {outcome(NoneValue, TRUE, FALSE)}
        at_seed == IF n_seeds > 0 THEN {outcome(NoneValue, FALSE, FALSE)} ELSE {}
        small == {outcome(List(Structures(aggregate_id, n)), FALSE, FALSE) :
                    n \in 0..Min(1, n_candidates)}
        final == IF n_candidates < 2 THEN {}
                 ELSE {outcome(List(Structures(aggregate_id, n)), FALSE, TRUE) :
                         n \in 0..Min(max_seeds, n_candidates)}
    IN at_entry \cup
       (IF seeds_arg.kind # "list" THEN type_error
        ELSE at_seed \cup small \cup final)

\* the working directory add_one returns in, entered in step_directory:
\* line 99 goes back after every seed, line 107 enters 'selected' and
\* nothing leaves it
cwd_after_add_one(step_directory, outcome) ==
    IF outcome.selected THEN Append(step_directory, <<"selected">>)
    ELSE step_directory

\* os.chdir('..') for the chdir of lines 211 and 254
chdir_parent(from, path) == SubSeq(from, 1, Len(from) - 1)

\* os.chdir(path) of an absolute path, wherever the process is
chdir(from, path) == path

-----------------------------------------------------------------------------
(* aggregate *)

\* lines 171-173 without the inner loop: the molecule appended once
repeat_once(x, n) == IF n = 0 THEN <<>> ELSE <<x>>

RECURSIVE repeat(_, _)
repeat(x, n) == IF n = 0 THEN <<>> ELSE <<x>> \o repeat(x, n - 1)

RECURSIVE monomers_from(_, _)
\* the loop over zip(molecules, seed_names, aggregate_sizes): each species'
\* molecule, named by its letter, appended size times
monomers_from(sizes, idx) ==
    IF idx > Min(Len(sizes), Len(seed_names)) THEN <<>>
    ELSE repeat(<<seed_names[idx]>>, sizes[idx]) \o monomers_from(sizes, idx + 1)

monomers_to_be_added(sizes) == monomers_from(sizes, 1)

RECURSIVE initial_id_from(_, _)
initial_id_from(sizes, idx) ==
    IF idx > Min(Len(sizes), Len(seed_names)) THEN <<>>
    ELSE <<"_", seed_names[idx], "_", "0", "0", "0">> \o initial_id_from(sizes, idx + 1)

\* ag_id after the loop: "ag" and one "_<letter>_000" slot per species
initial_aggregate_id(sizes) == <<"a", "g">> \o initial_id_from(sizes, 1)

RemoveAt(s, i) == SubSeq(s, 1, i - 1) \o SubSeq(s, i + 1, Len(s))

RECURSIVE permutations(_)
\* set(itertools.permutations(pool)): the tuples, equal ones collapsed
permutations(pool) ==
    IF pool = <<>> THEN {<<>>}
    ELSE UNION {{<<pool[i]>> \o p : p \in permutations(RemoveAt(pool, i))} :
                  i \in 1..Len(pool)}

NameIndex(name) == CHOOSE i \in 1..Len(seed_names) : seed_names[i] = name[1]

RECURSIVE Before(_, _)
\* lexicographic order of two pathways of one length
Before(p, q) ==
    IF p = <<>> THEN FALSE
    ELSE IF NameIndex(p[1]) # NameIndex(q[1]) THEN NameIndex(p[1]) < NameIndex(q[1])
    ELSE Before(Tail(p), Tail(q))

RECURSIVE Ascending(_)
Ascending(S) ==
    IF S = {} THEN <<>>
    ELSE LET least == CHOOSE p \in S : \A q \in S \ {p} : Before(p, q)
         IN <<least>> \o Ascending(S \ {least})

Reverse(s) == [i \in 1..Len(s) |-> s[Len(s) + 1 - i]]

\* list(S) of a Python set: the order is unspecified; the model draws it
SetOrders == {"ascending", "descending"}
list_of_set(S, order) ==
    IF order = "ascending" THEN Ascending(S) ELSE Reverse(Ascending(S))

\* lst[first:last] with 0 <= first; last = -1 stands for None
slice(lst, first, last) ==
    LET stop == IF last = -1 THEN Len(lst) ELSE Min(last, Len(lst))
    IN IF first >= stop THEN <<>> ELSE SubSeq(lst, first + 1, stop)

\* OrderedDict operations on a sequence of <<key, value>>
has_key(storage, key) == \E i \in 1..Len(storage) : storage[i][1] = key
getitem(storage, key) == storage[CHOOSE i \in 1..Len(storage) : storage[i][1] = key][2]
setitem(storage, key, value) ==
    IF has_key(storage, key)
    THEN [i \in 1..Len(storage) |->
            IF storage[i][1] = key THEN <<key, value>> ELSE storage[i]]
    ELSE Append(storage, <<key, value>>)
\* popitem(last=True), the default of popitem
popitem_last(storage) == SubSeq(storage, 1, Len(storage) - 1)
\* popitem(last=False): what is left, and the key that went
popitem_first(storage) == Tail(storage)
popped_key(storage) == Head(storage)[1]

\* line 201 with "ag_home = ag_id": the pathway's index left out
ag_home_without_index(id, counter) == id

\* line 201: "{}_{:03d}".format(ag_id, outside_counter)
ag_home_of(id, counter) == id \o <<"_">> \o fmt03(counter)

\* line 176
complete_pathways_of(sizes, order) ==
    list_of_set(permutations(monomers_to_be_added(sizes)), order)

\* lines 178-183
pathways_to_calculate_of(complete_pathways, first, number) ==
    LET my_last_pathway == IF number # 0 THEN first + number ELSE -1
    IN slice(complete_pathways, first, my_last_pathway)

\* line 187 as "initial_storage = seed_storage": the storage itself
initial_storage_aliased(storage) == storage
\* lines 185-187 and 215: copy.copy of the deep copy taken of the storage
\* while it was empty
initial_storage(storage) == <<>>

RECURSIVE Sum(_)
Sum(s) == IF s = <<>> THEN 0 ELSE Head(s) + Sum(Tail(s))

NoCall == [aggregate_id |-> <<>>, seeds |-> NoneValue, monomer |-> <<>>,
           hm_orientations |-> 0]

\* update_id is not run on its own
NoCodec ==
    /\ current_id = <<>>
    /\ first_id = <<>>
    /\ advances = <<>>

\* one invocation only
NoWindow == invocations = <<>>

\* the values every entry point starts from
InitLocals ==
    /\ number_of_orientations = 0
    /\ starting_directory = <<>>
    /\ cwd = <<>>
    /\ ag_id = <<>>
    /\ pathways_to_calculate = <<>>
    /\ seed_storage = <<>>
    /\ outside_counter = 0
    /\ inside_counter = 0
    /\ pathway_index = 0
    /\ monomer_index = 0
    /\ aggregation_counter = 0
    /\ dirs = {}
    /\ n_calls = 0
    /\ total_calls = 0
    /\ error = "none"
    /\ last_call = NoCall
    /\ last_stored = NoneValue
    /\ last_popped = <<>>
    /\ stop_seen = FALSE
    /\ exhausted = FALSE
    /\ seed_count = 0
    /\ not_converged = <<>>
    /\ round = 0
    /\ list_of_optimized_molecules = <<>>
    /\ selected_seeds = <<>>
    /\ next_index = 0
    /\ saved_cwd = <<>>
    /\ ret = NoneValue
    /\ batches = 0
    /\ loose_reports = {}
    /\ normal_reports = {}
    /\ chosen = <<>>

SizeVectors ==
    {v \in UNION {[1..n -> 0..MaxSize] : n \in 1..MaxSpecies} : Sum(v) <= MaxUnits}

InitAggregate ==
    /\ pc = "aggregate"
    /\ aggregate_sizes \in SizeVectors
    /\ hm_orientations \in {Auto, <<"2">>}
    /\ maximum_number_of_seeds = MaxSeedsArg
    /\ first_pathway \in 0..MaxFirstPathway
    /\ number_of_pathways \in 0..MaxNumberOfPathways
    /\ set_order \in SetOrders
    /\ aggregate_size = 0
    /\ seeds = List(<<>>)
    /\ InitLocals
    /\ NoCodec
    /\ NoWindow

\* lines 150-152: the stop file is there when aggregate is entered
aggregate_stopped ==
    /\ pc = "aggregate"
    /\ pc' = "returned"
    /\ UNCHANGED <<add_one_vars, codec_vars, window_vars>>
    /\ UNCHANGED <<aggregate_sizes, hm_orientations, maximum_number_of_seeds,
                   first_pathway, number_of_pathways, aggregate_size,
                   number_of_orientations, starting_directory, cwd, ag_id,
                   pathways_to_calculate, seed_storage, outside_counter,
                   inside_counter, pathway_index, monomer_index, seeds,
                   aggregation_counter, dirs, n_calls, total_calls, error,
                   set_order, last_call, last_stored, last_popped, stop_seen,
                   exhausted>>

\* lines 154-191: everything before the loop over the pathways
aggregate_setup ==
    /\ pc = "aggregate"
    /\ number_of_orientations' =
          IF hm_orientations = Auto THEN InitialOrientations
          ELSE int(hm_orientations)
    /\ dirs' = dirs \cup {Append(cwd, <<"aggregates">>)}
    /\ cwd' = Append(cwd, <<"aggregates">>)
    /\ starting_directory' = cwd'
    /\ ag_id' = initial_aggregate_id(aggregate_sizes)
    /\ pathways_to_calculate' =
          pathways_to_calculate_of(
              complete_pathways_of(aggregate_sizes, set_order),
              first_pathway, number_of_pathways)
    /\ seed_storage' = <<>>
    /\ outside_counter' = first_pathway
    /\ inside_counter' = 1
    /\ pathway_index' = 1
    /\ monomer_index' = 0
    /\ pc' = "pathways"
    /\ UNCHANGED <<add_one_vars, codec_vars, window_vars>>
    /\ UNCHANGED <<aggregate_sizes, hm_orientations, maximum_number_of_seeds,
                   first_pathway, number_of_pathways, aggregate_size, seeds,
                   aggregation_counter, n_calls, total_calls, error, set_order,
                   last_call, last_stored, last_popped, stop_seen, exhausted>>

InPathway ==
    /\ pc = "pathways"
    /\ pathway_index <= Len(pathways_to_calculate)

this_pathway == pathways_to_calculate[pathway_index]

\* lines 195-198: nothing stored yet, the monomer becomes the seed
place_first_monomer ==
    /\ InPathway
    /\ monomer_index < Len(this_pathway)
    /\ Len(seed_storage) < 1
    /\ LET this_monomer == this_pathway[monomer_index + 1]
           new_id == update_id(ag_id, this_monomer)
       IN /\ ag_id' = new_id
          /\ seed_storage' = setitem(seed_storage, new_id, List(<<Monomer(this_monomer)>>))
          /\ last_stored' = List(<<Monomer(this_monomer)>>)
    /\ monomer_index' = monomer_index + 1
    /\ UNCHANGED <<add_one_vars, codec_vars, window_vars>>
    /\ UNCHANGED <<aggregate_sizes, hm_orientations, maximum_number_of_seeds,
                   first_pathway, number_of_pathways, aggregate_size, pc,
                   number_of_orientations, starting_directory, cwd,
                   pathways_to_calculate, outside_counter, inside_counter,
                   pathway_index, seeds, aggregation_counter, dirs, n_calls,
                   total_calls, error, set_order, last_call, last_popped,
                   stop_seen, exhausted>>

\* lines 199-213: one growth step, the call of add_one included
growth_step ==
    /\ InPathway
    /\ monomer_index < Len(this_pathway)
    /\ Len(seed_storage) >= 1
    /\ IF ~has_key(seed_storage, ag_id)
       THEN \* line 199: KeyError
            /\ pc' = "raised"
            /\ error' = "KeyError"
            /\ UNCHANGED <<ag_id, dirs, n_calls, total_calls, last_call, cwd,
                           seed_storage, inside_counter, monomer_index,
                           last_stored, last_popped, stop_seen, exhausted>>
       ELSE
       LET this_monomer == this_pathway[monomer_index + 1]
           this_seed == getitem(seed_storage, ag_id)
           new_id == update_id(ag_id, this_monomer)
           ag_home == ag_home_of(new_id, outside_counter)
       IN \E o \in add_one_outcomes(new_id, this_seed, number_of_orientations,
                                     maximum_number_of_seeds) :
            /\ ag_id' = new_id
            /\ dirs' = dirs \cup {Append(cwd, ag_home)}
            /\ n_calls' = n_calls + 1
            /\ total_calls' = total_calls + 1
            /\ last_call' = [aggregate_id |-> new_id, seeds |-> this_seed,
                             monomer |-> this_monomer,
                             hm_orientations |-> number_of_orientations]
            /\ IF o.raised
               THEN \* the TypeError of len(seeds) leaves aggregate
                    /\ pc' = "raised"
                    /\ error' = "TypeError"
                    /\ cwd' = Append(cwd, ag_home)
                    /\ UNCHANGED <<seed_storage, inside_counter, monomer_index,
                                   last_stored, last_popped, stop_seen, exhausted>>
               ELSE /\ seed_storage' = popitem_first(setitem(seed_storage, new_id, o.ret))
                    /\ last_stored' = o.ret
                    /\ last_popped' = popped_key(setitem(seed_storage, new_id, o.ret))
                    /\ cwd' = chdir(cwd_after_add_one(Append(cwd, ag_home), o),
                                    starting_directory)
                    /\ inside_counter' = inside_counter + 1
                    /\ monomer_index' = monomer_index + 1
                    /\ stop_seen' = (stop_seen \/ IsCancelled(o.ret))
                    /\ exhausted' = (exhausted \/ o.ret = List(<<>>))
                    /\ UNCHANGED <<pc, error>>
    /\ UNCHANGED <<add_one_vars, codec_vars, window_vars>>
    /\ UNCHANGED <<aggregate_sizes, hm_orientations, maximum_number_of_seeds,
                   first_pathway, number_of_pathways, aggregate_size,
                   number_of_orientations, starting_directory,
                   pathways_to_calculate, outside_counter, pathway_index, seeds,
                   aggregation_counter, set_order>>

\* lines 214-219: the pathway is walked; reset and escalate
pathway_end ==
    /\ InPathway
    /\ monomer_index = Len(this_pathway)
    /\ outside_counter' = outside_counter + 1
    /\ seed_storage' = initial_storage(seed_storage)
    /\ ag_id' = initial_aggregate_id(aggregate_sizes)
    /\ number_of_orientations' =
          IF hm_orientations = Auto /\ number_of_orientations <= OrientationCap
          THEN number_of_orientations + OrientationStep
          ELSE number_of_orientations
    /\ pathway_index' = pathway_index + 1
    /\ monomer_index' = 0
    /\ n_calls' = 0
    /\ last_call' = NoCall
    /\ last_stored' = NoneValue
    /\ last_popped' = <<>>
    /\ exhausted' = FALSE
    /\ UNCHANGED <<add_one_vars, codec_vars, window_vars>>
    /\ UNCHANGED <<aggregate_sizes, hm_orientations, maximum_number_of_seeds,
                   first_pathway, number_of_pathways, aggregate_size, pc,
                   starting_directory, cwd, pathways_to_calculate,
                   inside_counter, seeds, aggregation_counter, dirs,
                   total_calls, error, set_order, stop_seen>>

\* line 220
aggregate_return ==
    /\ pc = "pathways"
    /\ pathway_index > Len(pathways_to_calculate)
    /\ pc' = "returned"
    /\ UNCHANGED <<add_one_vars, codec_vars, window_vars>>
    /\ UNCHANGED <<aggregate_sizes, hm_orientations, maximum_number_of_seeds,
                   first_pathway, number_of_pathways, aggregate_size,
                   number_of_orientations, starting_directory, cwd, ag_id,
                   pathways_to_calculate, seed_storage, outside_counter,
                   inside_counter, pathway_index, monomer_index, seeds,
                   aggregation_counter, dirs, n_calls, total_calls, error,
                   set_order, last_call, last_stored, last_popped, stop_seen,
                   exhausted>>

NextAggregate ==
    \/ aggregate_stopped
    \/ aggregate_setup
    \/ place_first_monomer
    \/ growth_step
    \/ pathway_end
    \/ aggregate_return

SpecAggregate == InitAggregate /\ [][NextAggregate]_vars

\* a window long enough for the orientation count to reach its cap: two
\* species of 3 and 4 units have 35 pathways
LongSizes == <<3, 4>>

InitAggregateLong ==
    /\ pc = "aggregate"
    /\ aggregate_sizes = LongSizes
    /\ hm_orientations \in {Auto, <<"2">>}
    /\ maximum_number_of_seeds = MaxSeedsArg
    /\ first_pathway \in 0..MaxFirstPathway
    /\ number_of_pathways = 0
    /\ set_order \in SetOrders
    /\ aggregate_size = 0
    /\ seeds = List(<<>>)
    /\ InitLocals
    /\ NoCodec
    /\ NoWindow

SpecAggregateLong == InitAggregateLong /\ [][NextAggregate]_vars

-----------------------------------------------------------------------------
(* add_one, step by step *)

Status == {"converged", "CycleExceeded", "failed"}

RECURSIVE PickFrom(_, _, _)
PickFrom(s, I, i) ==
    IF i > Len(s) THEN <<>>
    ELSE (IF i \in I THEN <<s[i]>> ELSE <<>>) \o PickFrom(s, I, i + 1)

\* the sub-lists of s, order kept
Sublists(s) == {PickFrom(s, I, 1) : I \in SUBSET (1..Len(s))}

Range(s) == {s[i] : i \in 1..Len(s)}

\* tabu.generate_orientations(mol_id, seed, monomer, hm): hm candidates named
\* after mol_id = "<seed_id>_<aggregate_id>"
generate_orientations(seed_id, aggregate_id, hm) ==
    Structures(seed_id \o <<"_">> \o aggregate_id, hm)

\* clustering.remove_similar: a deduplicated sub-list, empty only of nothing
remove_similar(candidates) ==
    {c \in Sublists(candidates) : candidates # <<>> => c # <<>>}

\* clustering.choose_geometries: at most maximum_number_of_seeds of the pool
choose_geometries(pool, max_seeds) ==
    {c \in Sublists(pool) : Len(c) <= max_seeds}

\* list.remove(x): the first element equal to x goes
remove(lst, x) ==
    LET at == CHOOSE i \in 1..Len(lst) :
                  lst[i] = x /\ \A j \in 1..(i - 1) : lst[j] # x
    IN RemoveAt(lst, at)

\* line 94 with "if s" for "if s is True": 'CycleExceeded' is truthy
converged_if_truthy(candidates, status_list) ==
    PickFrom(candidates,
             {i \in 1..Len(candidates) :
                status_list[i] \in {"converged", "CycleExceeded"}}, 1)

\* line 94: [n for n, s in zip(not_converged, status_list) if s is True]
converged_of(candidates, status_list) ==
    PickFrom(candidates,
             {i \in 1..Len(candidates) : status_list[i] = "converged"}, 1)

\* line 96: [n for n, s in zip(...) if s == 'CycleExceeded']
exceeded_of(candidates, status_list) ==
    PickFrom(candidates,
             {i \in 1..Len(candidates) : status_list[i] = "CycleExceeded"}, 1)

\* line 101 with 3 for 2
is_small_pool_3(pool) == Len(pool) < 3

\* line 101: len(list_of_optimized_molecules) < 2
is_small_pool(pool) == Len(pool) < 2

\* what add_one leaves alone in its caller
caller_vars ==
    <<aggregate_sizes, hm_orientations, maximum_number_of_seeds, first_pathway,
      number_of_pathways, aggregate_size, number_of_orientations,
      starting_directory, ag_id, pathways_to_calculate, seed_storage,
      outside_counter, inside_counter, pathway_index, monomer_index, seeds,
      aggregation_counter, n_calls, total_calls, set_order, last_call,
      last_stored, last_popped, stop_seen, exhausted, codec_vars,
      window_vars>>

SeedLists == {List(Structures(<<"s">>, n)) : n \in 0..MaxSeeds}

InitAddOne ==
    /\ pc = "add_one"
    /\ seeds \in SeedLists \cup {StopIterationValue, NoneValue}
    /\ number_of_orientations \in 0..MaxOrientations
    /\ Len(seeds.items) * number_of_orientations <= MaxCandidates
    /\ maximum_number_of_seeds \in 0..MaxSeedsArg
    /\ ag_id = <<"0", "0", "2">>
    /\ cwd = <<>>
    /\ starting_directory = <<>>
    /\ aggregate_sizes = <<>>
    /\ hm_orientations = Auto
    /\ first_pathway = 0
    /\ number_of_pathways = 0
    /\ set_order = "ascending"
    /\ aggregate_size = 0
    /\ pathways_to_calculate = <<>>
    /\ seed_storage = <<>>
    /\ outside_counter = 0
    /\ inside_counter = 0
    /\ pathway_index = 0
    /\ monomer_index = 0
    /\ aggregation_counter = 0
    /\ dirs = {}
    /\ n_calls = 0
    /\ total_calls = 0
    /\ error = "none"
    /\ last_call = NoCall
    /\ last_stored = NoneValue
    /\ last_popped = <<>>
    /\ stop_seen = FALSE
    /\ exhausted = FALSE
    /\ seed_count = 0
    /\ not_converged = <<>>
    /\ round = 0
    /\ list_of_optimized_molecules = <<>>
    /\ selected_seeds = <<>>
    /\ next_index = 0
    /\ saved_cwd = <<>>
    /\ ret = NoneValue
    /\ batches = 0
    /\ loose_reports = {}
    /\ normal_reports = {}
    /\ chosen = <<>>
    /\ NoCodec
    /\ NoWindow

\* lines 63-65: the stop file is there at entry
add_one_stopped ==
    /\ pc = "add_one"
    /\ ret' = StopIterationValue
    /\ pc' = "returned"
    /\ UNCHANGED <<caller_vars, cwd, dirs, error, seed_count, not_converged,
                   round, list_of_optimized_molecules, selected_seeds,
                   next_index, saved_cwd, batches, loose_reports,
                   normal_reports, chosen>>

\* lines 66-69: len(seeds) raises TypeError for a seeds that is no list
add_one_begin ==
    /\ pc = "add_one"
    /\ IF seeds.kind # "list"
       THEN /\ pc' = "raised"
            /\ error' = "TypeError"
            /\ UNCHANGED <<saved_cwd, list_of_optimized_molecules, seed_count>>
       ELSE /\ pc' = "seeds"
            /\ saved_cwd' = cwd
            /\ list_of_optimized_molecules' = <<>>
            /\ seed_count' = 0
            /\ UNCHANGED error
    /\ UNCHANGED <<caller_vars, cwd, dirs, not_converged, round,
                   selected_seeds, next_index, ret, batches, loose_reports,
                   normal_reports, chosen>>

\* lines 71-73 with "return list_of_optimized_molecules" for the bare return
seed_stopped_returns_pool ==
    /\ pc = "seeds"
    /\ seed_count < Len(seeds.items)
    /\ ret' = List(list_of_optimized_molecules)
    /\ pc' = "returned"
    /\ UNCHANGED <<caller_vars, cwd, dirs, error, seed_count, not_converged,
                   round, list_of_optimized_molecules, selected_seeds,
                   next_index, saved_cwd, batches, loose_reports,
                   normal_reports, chosen>>

\* lines 71-73: the stop file is there before a seed
seed_stopped ==
    /\ pc = "seeds"
    /\ seed_count < Len(seeds.items)
    /\ ret' = NoneValue
    /\ pc' = "returned"
    /\ UNCHANGED <<caller_vars, cwd, dirs, error, seed_count, not_converged,
                   round, list_of_optimized_molecules, selected_seeds,
                   next_index, saved_cwd, batches, loose_reports,
                   normal_reports, chosen>>

\* lines 74-86: the seed's directory and its orientations
seed_begin ==
    /\ pc = "seeds"
    /\ seed_count < Len(seeds.items)
    /\ LET seed_id == fmt03(seed_count)
           seeds_home == <<"seed_">> \o seed_id
       IN /\ dirs' = dirs \cup {Append(cwd, seeds_home)}
          /\ cwd' = Append(cwd, seeds_home)
          /\ not_converged' =
                generate_orientations(seed_id, ag_id, number_of_orientations)
    /\ round' = 0
    /\ batches' = 0
    /\ pc' = "rounds"
    /\ UNCHANGED <<caller_vars, error, seed_count,
                   list_of_optimized_molecules, selected_seeds, next_index,
                   saved_cwd, ret, loose_reports, normal_reports, chosen>>

\* lines 87-97, one turn of "for i in range(10)" that optimises
optimisation_round ==
    /\ pc = "rounds"
    /\ round < ConvergenceRounds
    /\ Len(not_converged) # 0
    /\ \E status_list \in [1..Len(not_converged) -> Status] :
         LET converged == converged_of(not_converged, status_list)
             exceeded == exceeded_of(not_converged, status_list)
         IN /\ list_of_optimized_molecules' =
                  list_of_optimized_molecules \o converged
            /\ not_converged' \in remove_similar(exceeded)
            /\ loose_reports' = loose_reports \cup
                  {<<not_converged[i], status_list[i]>> :
                     i \in 1..Len(not_converged)}
    /\ round' = round + 1
    /\ batches' = batches + 1
    /\ UNCHANGED <<caller_vars, cwd, dirs, error, seed_count, selected_seeds,
                   next_index, saved_cwd, ret, normal_reports, chosen, pc>>

\* lines 89-91 and 99: the loop ends (break, or ten turns done); back to cwd
seed_end ==
    /\ pc = "rounds"
    /\ round = ConvergenceRounds \/ Len(not_converged) = 0
    /\ cwd' = saved_cwd
    /\ seed_count' = seed_count + 1
    /\ pc' = "seeds"
    /\ UNCHANGED <<caller_vars, dirs, error, not_converged, round,
                   list_of_optimized_molecules, selected_seeds, next_index,
                   saved_cwd, ret, batches, loose_reports, normal_reports,
                   chosen>>

\* lines 101-102: fewer than two candidates are returned as they are
return_small_pool ==
    /\ pc = "seeds"
    /\ seed_count >= Len(seeds.items)
    /\ is_small_pool(list_of_optimized_molecules)
    /\ ret' = List(list_of_optimized_molecules)
    /\ pc' = "returned"
    /\ UNCHANGED <<caller_vars, cwd, dirs, error, seed_count, not_converged,
                   round, list_of_optimized_molecules, selected_seeds,
                   next_index, saved_cwd, batches, loose_reports,
                   normal_reports, chosen>>

\* lines 103-107: clustering, and into 'selected'
select_seeds ==
    /\ pc = "seeds"
    /\ seed_count >= Len(seeds.items)
    /\ ~is_small_pool(list_of_optimized_molecules)
    /\ selected_seeds' \in choose_geometries(list_of_optimized_molecules,
                                              maximum_number_of_seeds)
    /\ chosen' = selected_seeds'
    /\ dirs' = dirs \cup {Append(cwd, <<"selected">>)}
    /\ cwd' = Append(cwd, <<"selected">>)
    /\ next_index' = 0
    /\ pc' = "final"
    /\ UNCHANGED <<caller_vars, error, seed_count, not_converged, round,
                   list_of_optimized_molecules, saved_cwd, ret, batches,
                   loose_reports, normal_reports>>

\* lines 108-115, one turn of "for each_file in selected_seeds": the list
\* iterator hands out selected_seeds[next_index] and moves on, while remove
\* shortens the very list it walks
final_pass ==
    /\ pc = "final"
    /\ next_index < Len(selected_seeds)
    /\ LET each_file == selected_seeds[next_index + 1]
       IN \E status \in Status :
            /\ normal_reports' = normal_reports \cup {<<each_file, status>>}
            /\ selected_seeds' =
                  IF status = "converged" THEN selected_seeds
                  ELSE remove(selected_seeds, each_file)
    /\ next_index' = next_index + 1
    /\ UNCHANGED <<caller_vars, cwd, dirs, error, seed_count, not_converged,
                   round, list_of_optimized_molecules, saved_cwd, ret, batches,
                   loose_reports, chosen, pc>>

\* line 116
return_selected ==
    /\ pc = "final"
    /\ next_index >= Len(selected_seeds)
    /\ ret' = List(selected_seeds)
    /\ pc' = "returned"
    /\ UNCHANGED <<caller_vars, cwd, dirs, error, seed_count, not_converged,
                   round, list_of_optimized_molecules, selected_seeds,
                   next_index, saved_cwd, batches, loose_reports,
                   normal_reports, chosen>>

NextAddOne ==
    \/ add_one_stopped
    \/ add_one_begin
    \/ seed_stopped
    \/ seed_begin
    \/ optimisation_round
    \/ seed_end
    \/ return_small_pool
    \/ select_seeds
    \/ final_pass
    \/ return_selected

SpecAddOne == InitAddOne /\ [][NextAddOne]_vars

-----------------------------------------------------------------------------
(* solvate *)

InitSolvate ==
    /\ pc = "solvate"
    /\ seeds \in SeedLists
    /\ aggregate_size \in 0..MaxAggregateSize
    /\ hm_orientations \in {Auto, <<"2">>}
    /\ maximum_number_of_seeds \in 0..MaxSeedsArg
    /\ aggregate_sizes = <<>>
    /\ first_pathway = 0
    /\ number_of_pathways = 0
    /\ set_order = "ascending"
    /\ InitLocals
    /\ NoCodec
    /\ NoWindow

\* what solvate never touches
solvate_frame ==
    <<aggregate_sizes, hm_orientations, maximum_number_of_seeds, first_pathway,
      number_of_pathways, aggregate_size, ag_id, pathways_to_calculate,
      seed_storage, outside_counter, inside_counter, pathway_index,
      monomer_index, n_calls, set_order, last_stored, last_popped, exhausted,
      add_one_vars, codec_vars, window_vars>>

\* lines 228-230: the stop file is there when solvate is entered
solvate_stopped ==
    /\ pc = "solvate"
    /\ pc' = "returned"
    /\ UNCHANGED <<solvate_frame, number_of_orientations, starting_directory,
                   cwd, seeds, aggregation_counter, dirs, total_calls, error,
                   last_call, stop_seen>>

\* lines 232-238: everything before the loop
solvate_setup ==
    /\ pc = "solvate"
    /\ number_of_orientations' =
          IF hm_orientations = Auto THEN InitialOrientations
          ELSE int(hm_orientations)
    /\ starting_directory' = cwd
    /\ aggregation_counter' = 2
    /\ pc' = "steps"
    /\ UNCHANGED <<solvate_frame, cwd, seeds, dirs, total_calls, error,
                   last_call, stop_seen>>

\* line 240 left out, as in aggregate: the list is never looked at
no_seeds_unchecked(seed_list) == FALSE

\* line 240: len(seeds) == 0
no_seeds(seed_list) == Len(seed_list.items) = 0

InStep ==
    /\ pc = "steps"
    /\ aggregation_counter < aggregate_size + 2

\* line 240 with seeds a sentinel of a cancelled add_one: len raises TypeError
solvate_type_error ==
    /\ InStep
    /\ seeds.kind # "list"
    /\ pc' = "raised"
    /\ error' = "TypeError"
    /\ UNCHANGED <<solvate_frame, number_of_orientations, starting_directory,
                   cwd, seeds, aggregation_counter, dirs, total_calls,
                   last_call, stop_seen>>

\* lines 240-242: no seeds to process
solvate_no_seeds ==
    /\ InStep
    /\ seeds.kind = "list"
    /\ no_seeds(seeds)
    /\ pc' = "returned"
    /\ UNCHANGED <<solvate_frame, number_of_orientations, starting_directory,
                   cwd, seeds, aggregation_counter, dirs, total_calls, error,
                   last_call, stop_seen>>

\* lines 243-254: one growth step, the call of add_one included
solvate_step ==
    /\ InStep
    /\ seeds.kind = "list"
    /\ ~no_seeds(seeds)
    /\ LET aggregate_id == fmt03(aggregation_counter)
           aggregate_home == <<"aggregate_">> \o aggregate_id
       IN \E o \in add_one_outcomes(aggregate_id, seeds, number_of_orientations,
                                     maximum_number_of_seeds) :
            /\ dirs' = dirs \cup {Append(cwd, aggregate_home)}
            /\ total_calls' = total_calls + 1
            /\ last_call' = [aggregate_id |-> aggregate_id, seeds |-> seeds,
                             monomer |-> <<>>,
                             hm_orientations |-> number_of_orientations]
            /\ seeds' = o.ret
            /\ stop_seen' = (stop_seen \/ IsCancelled(o.ret))
            /\ cwd' = chdir(cwd_after_add_one(Append(cwd, aggregate_home), o),
                            starting_directory)
    /\ number_of_orientations' =
          IF hm_orientations = Auto /\ number_of_orientations <= OrientationCap
          THEN number_of_orientations * 2
          ELSE number_of_orientations
    /\ aggregation_counter' = aggregation_counter + 1
    /\ UNCHANGED <<solvate_frame, starting_directory, error, pc>>

\* line 255
solvate_return ==
    /\ pc = "steps"
    /\ aggregation_counter >= aggregate_size + 2
    /\ pc' = "returned"
    /\ UNCHANGED <<solvate_frame, number_of_orientations, starting_directory,
                   cwd, seeds, aggregation_counter, dirs, total_calls, error,
                   last_call, stop_seen>>

NextSolvate ==
    \/ solvate_stopped
    \/ solvate_setup
    \/ solvate_type_error
    \/ solvate_no_seeds
    \/ solvate_step
    \/ solvate_return

SpecSolvate == InitSolvate /\ [][NextSolvate]_vars

-----------------------------------------------------------------------------
(* Both orchestrators: a run is one call of aggregate or one of solvate *)

InitOrchestrator == InitAggregate \/ InitSolvate

NextOrchestrator ==
    \/ aggregate_stopped
    \/ aggregate_setup
    \/ place_first_monomer
    \/ growth_step
    \/ pathway_end
    \/ aggregate_return
    \/ solvate_stopped
    \/ solvate_setup
    \/ solvate_type_error
    \/ solvate_no_seeds
    \/ solvate_step
    \/ solvate_return

SpecOrchestrator == InitOrchestrator /\ [][NextOrchestrator]_vars

-----------------------------------------------------------------------------
(* update_id on its own: calls threaded through one id *)

MaxSlots == 2             \* species slots of an id
MaxAdvances == 3          \* calls of update_id in a row

Prefixes == {<<"a", "g">>, <<"x">>}
SpeciesTags == {<<"a">>, <<"c">>, <<"c", "l">>}
SlotCounts == {0, 999}

\* sequences of distinct species tags
SlotTags == {t \in UNION {[1..n -> SpeciesTags] : n \in 1..MaxSlots} :
               \A i, j \in 1..Len(t) : i # j => t[i] # t[j]}

RECURSIVE format_slots(_, _, _)
\* the docstring's "a_{:03d}_b_{:03d}_c_{:03d}".format(a_n, b_n, c_n)
format_slots(tags, counts, idx) ==
    IF idx > Len(tags) THEN <<>>
    ELSE <<"_">> \o tags[idx] \o <<"_">> \o fmt03(counts[idx])
         \o format_slots(tags, counts, idx + 1)

format_id(prefix, tags, counts) == prefix \o format_slots(tags, counts, 1)

\* prefix, then a species and a three-digit count per slot
WellFormedIds ==
    UNION {{format_id(prefix, tags, counts) :
               counts \in [1..Len(tags) -> SlotCounts]} :
             prefix \in Prefixes, tags \in SlotTags}

InitUpdateId ==
    /\ pc = "update_id"
    /\ first_id \in WellFormedIds
    /\ current_id = first_id
    /\ advances = <<>>
    /\ aggregate_sizes = <<>>
    /\ hm_orientations = Auto
    /\ maximum_number_of_seeds = 0
    /\ first_pathway = 0
    /\ number_of_pathways = 0
    /\ set_order = "ascending"
    /\ aggregate_size = 0
    /\ seeds = List(<<>>)
    /\ InitLocals
    /\ NoWindow

\* lines 22-40: one call, its result the id of the next call
call_update_id ==
    /\ pc = "update_id"
    /\ Len(advances) < MaxAdvances
    /\ \E species \in SpeciesTags :
          /\ current_id' = update_id(current_id, species)
          /\ advances' = Append(advances, species)
    /\ UNCHANGED <<orchestrator_vars, add_one_vars, window_vars, first_id>>

NextUpdateId == call_update_id

SpecUpdateId == InitUpdateId /\ [][NextUpdateId]_vars

-----------------------------------------------------------------------------
(* The pathway window of separate invocations of aggregate *)

\* an invocation still to be made, with its window
Planned(first, number) ==
    [first_pathway |-> first, number_of_pathways |-> number, done |-> FALSE,
     complete_pathways |-> <<>>, pathways_to_calculate |-> <<>>]

\* four invocations for the same molecules and sizes: the windows (f, n),
\* (f + n, m), (f, n + m) and (f, 0)
InitWindow ==
    /\ pc = "windows"
    /\ aggregate_sizes \in SizeVectors
    /\ \E f \in 0..MaxFirstPathway, n, m \in 1..MaxNumberOfPathways :
          invocations = <<Planned(f, n), Planned(f + n, m),
                          Planned(f, n + m), Planned(f, 0)>>
    /\ hm_orientations = Auto
    /\ maximum_number_of_seeds = 0
    /\ first_pathway = 0
    /\ number_of_pathways = 0
    /\ set_order = "ascending"
    /\ aggregate_size = 0
    /\ seeds = List(<<>>)
    /\ InitLocals
    /\ NoCodec

\* lines 169-183 of one invocation: the set of permutations is listed in
\* the order this invocation's set happens to have
enumerate_window ==
    /\ pc = "windows"
    /\ \E k \in 1..Len(invocations), order \in SetOrders :
          /\ ~invocations[k].done
          /\ LET complete_pathways == complete_pathways_of(aggregate_sizes, order)
                 w == invocations[k]
             IN invocations' =
                  [invocations EXCEPT ![k] =
                     [w EXCEPT !.done = TRUE,
                               !.complete_pathways = complete_pathways,
                               !.pathways_to_calculate =
                                   pathways_to_calculate_of(
                                       complete_pathways, w.first_pathway,
                                       w.number_of_pathways)]]
    /\ UNCHANGED <<orchestrator_vars, add_one_vars, codec_vars>>

NextWindow == enumerate_window

SpecWindow == InitWindow /\ [][NextWindow]_vars

-----------------------------------------------------------------------------
(* The claims *)

AddOneReturnedList == pc = "returned" /\ ret.kind = "list"

\* C1: when the pool of converged candidates has two or more members, every
\* structure add_one returns was itself optimised with convergence='normal'
\* and reported converged; a representative that failed the final pass, or
\* was never submitted to it, is not returned.
C1_ReturnedPassedFinal ==
    (AddOneReturnedList /\ Len(list_of_optimized_molecules) >= 2) =>
        \A x \in Range(ret.items) : <<x, "converged">> \in normal_reports

\* C7: the loose-convergence loop of a seed runs at most ten optimisation
\* rounds and none on an empty pool; a candidate is never optimised again
\* after it reported converged or failed; the accumulated results hold only
\* candidates that reported converged, never one that reported failed or
\* that reported cycle-exceeded in every round.
C7_ConvergenceLoop ==
    /\ round <= ConvergenceRounds
    /\ batches <= ConvergenceRounds
    /\ \A x \in Range(list_of_optimized_molecules) :
          /\ <<x, "converged">> \in loose_reports
          /\ <<x, "failed">> \notin loose_reports
    /\ \A i, j \in 1..Len(list_of_optimized_molecules) :
          i # j => list_of_optimized_molecules[i] # list_of_optimized_molecules[j]
    /\ \A x \in Range(not_converged) :
          pc = "rounds" /\ batches > 0 =>
              /\ <<x, "CycleExceeded">> \in loose_reports
              /\ <<x, "converged">> \notin loose_reports
              /\ <<x, "failed">> \notin loose_reports

\* a seed whose pool was still not empty after the tenth round, with
\* converged candidates accumulated, and the loop left
C7_Witness ==
    /\ pc = "seeds"
    /\ batches = ConvergenceRounds
    /\ not_converged # <<>>
    /\ list_of_optimized_molecules # <<>>
    /\ \A x \in Range(not_converged) : x \notin Range(list_of_optimized_molecules)

\* C8: every list add_one returns has at most maximum_number_of_seeds
\* structures, whatever the size of the pool (0 and 1 included) and for
\* every maximum_number_of_seeds >= 0.
C8_AtMostMaximum ==
    AddOneReturnedList => Len(ret.items) <= maximum_number_of_seeds

\* C8 as amended: the list add_one returns has at most
\* maximum_number_of_seeds structures whenever maximum_number_of_seeds >= 1
\* or the pool has two or more members (a pool of one member is returned as
\* it is, also when maximum_number_of_seeds is 0).
C8_AtMostMaximumAmended ==
    (AddOneReturnedList /\
       (maximum_number_of_seeds >= 1 \/ Len(list_of_optimized_molecules) >= 2)) =>
        /\ Len(ret.items) <= maximum_number_of_seeds
        /\ Range(ret.items) \subseteq Range(list_of_optimized_molecules)

\* clustering cut a pool larger than the maximum down to the maximum
C8_Witness ==
    /\ AddOneReturnedList
    /\ maximum_number_of_seeds >= 1
    /\ Len(list_of_optimized_molecules) > maximum_number_of_seeds
    /\ Len(ret.items) = maximum_number_of_seeds

\* C2: once an add_one call of aggregate has returned a cancellation
\* sentinel, no further step directory is made and no further add_one call
\* is made, in this pathway or a later one.
C2_StopEndsRun ==
    [][stop_seen => (dirs' = dirs /\ total_calls' = total_calls)]_vars

\* C4: once a growth step of a pathway has returned [], no further add_one
\* call is made and no further step directory is made for that pathway.
C4_EmptyEndsPathway ==
    [][(exhausted /\ pathway_index' = pathway_index) =>
          (dirs' = dirs /\ total_calls' = total_calls)]_vars

\* C6: with hm_orientations 'auto' the count passed to add_one is 8 in the
\* first processed pathway, 8 more in each following one, and never more
\* than 256.
C6_AdditiveCapped ==
    (hm_orientations = Auto /\ InPathway /\ n_calls >= 1) =>
        /\ last_call.hm_orientations =
              Min(InitialOrientations + OrientationStep * (pathway_index - 1),
                  OrientationCap)
        /\ last_call.hm_orientations <= OrientationCap

\* the id that records the first m monomers of a pathway, built from the
\* counts
CountIn(pathway, m, name) == Cardinality({i \in 1..m : pathway[i] = name})

RECURSIVE SlotsOfPrefix(_, _, _, _)
SlotsOfPrefix(sizes, pathway, m, idx) ==
    IF idx > Len(sizes) THEN <<>>
    ELSE <<"_", seed_names[idx], "_">>
         \o fmt03(CountIn(pathway, m, <<seed_names[idx]>>))
         \o SlotsOfPrefix(sizes, pathway, m, idx + 1)

IdOfPrefix(m) ==
    <<"a", "g">> \o SlotsOfPrefix(aggregate_sizes, this_pathway, m, 1)

\* C9: after the first monomer of a pathway is placed and after every
\* completed growth step, seed_storage holds exactly one entry, under the
\* current aggregate id, holding the value just stored; the key a step
\* retires is the id it consumed, not the one it stored; the lookup
\* seed_storage[ag_id] never misses.
C9_SlidingWindow ==
    /\ error # "KeyError"
    /\ (InPathway /\ monomer_index >= 1) =>
          /\ Len(seed_storage) = 1
          /\ seed_storage[1][1] = ag_id
          /\ seed_storage[1][2] = last_stored
          /\ ag_id = IdOfPrefix(monomer_index)
    /\ (InPathway /\ n_calls >= 1) =>
          /\ last_popped = IdOfPrefix(monomer_index - 1)
          /\ last_popped # ag_id

\* two growth steps of a pathway are done, the second stored structures
C9_Witness ==
    /\ InPathway
    /\ n_calls >= 2
    /\ Len(seed_storage) = 1
    /\ seed_storage[1][2].kind = "list"
    /\ Len(seed_storage[1][2].items) = 2

\* C10: in a pathway of L monomers the first is placed without a call of
\* add_one and each later one makes exactly one call, in pathway order, so
\* L - 1 calls when the pathway is walked; the id passed to the j-th call
\* counts the species of the first j + 1 monomers; the seeds passed are the
\* value the step before stored ([first monomer] for the first call).
C10_StepState ==
    InPathway =>
        /\ n_calls = (IF monomer_index = 0 THEN 0 ELSE monomer_index - 1)
        /\ n_calls >= 1 =>
              /\ last_call.aggregate_id = IdOfPrefix(n_calls + 1)
              /\ last_call.monomer = this_pathway[n_calls + 1]
        /\ n_calls = 1 =>
              last_call.seeds = List(<<Monomer(this_pathway[1])>>)

C10_PathwaySteps ==
    /\ []C10_StepState
    /\ [][total_calls' # total_calls =>
             /\ total_calls' = total_calls + 1
             /\ monomer_index >= 1
             /\ last_call'.seeds = last_stored]_vars
    /\ [][(InPathway /\ pathway_index' # pathway_index) =>
             n_calls = (IF this_pathway = <<>> THEN 0 ELSE Len(this_pathway) - 1)]_vars

\* a pathway of three monomers of two species is walked: two calls made
C10_Witness ==
    /\ InPathway
    /\ Len(this_pathway) >= 3
    /\ monomer_index = Len(this_pathway)
    /\ n_calls = Len(this_pathway) - 1
    /\ Len(aggregate_sizes) = 2
    /\ last_call.seeds.kind = "list"
    /\ Len(last_call.seeds.items) = 2

RECURSIVE Pow2(_)
Pow2(n) == IF n = 0 THEN 1 ELSE 2 * Pow2(n - 1)

\* C3: when an add_one call of solvate returns a cancellation sentinel,
\* solvate ends without an error and without another growth step.
C3_StopEndsCleanly ==
    stop_seen => pc # "raised"

\* C5: with hm_orientations 'auto' the count solvate passes to add_one is 8
\* at the first step, doubles from step to step, and never exceeds 256.
C5_DoublingCapped ==
    (hm_orientations = Auto /\ total_calls >= 1) =>
        /\ last_call.hm_orientations =
              Min(InitialOrientations * Pow2(total_calls - 1), OrientationCap)
        /\ last_call.hm_orientations <= OrientationCap

\* the counts of an id: every second part after the prefix
CountsOf(id) ==
    LET parts == split(id, "_")
    IN [i \in 1..((Len(parts) - 1) \div 2) |-> parts[2 * i + 1]]

\* C11: at the start of every pathway of the window seed_storage is empty
\* and the aggregate id is the initial id with every count 000, however the
\* pathway before ended; the first growth step of a pathway is given the
\* pathway's own first monomer and every later one structures named by the
\* id of the pathway's own step before.
C11_PathwayStartsFresh ==
    /\ (pc = "pathways" /\ monomer_index = 0) =>
          /\ seed_storage = <<>>
          /\ ag_id = initial_aggregate_id(aggregate_sizes)
          /\ \A i \in 1..Len(CountsOf(ag_id)) : CountsOf(ag_id)[i] = <<"0", "0", "0">>
          /\ Len(CountsOf(ag_id)) = Len(aggregate_sizes)
    /\ (InPathway /\ n_calls = 1) =>
          last_call.seeds = List(<<Monomer(this_pathway[1])>>)
    /\ (InPathway /\ n_calls >= 2 /\ last_call.seeds.kind = "list") =>
          \A x \in Range(last_call.seeds.items) : x.name = IdOfPrefix(n_calls)

\* a second pathway starts after one whose last step stored structures, and
\* one starts after a pathway that was cancelled
C11_Witness ==
    /\ InPathway
    /\ pathway_index >= 2
    /\ monomer_index = 0
    /\ total_calls >= 2
    /\ stop_seen

\* the fields of an id
PrefixOf(id) == Head(split(id, "_"))
TagsOf(id) ==
    LET parts == split(id, "_")
    IN [i \in 1..((Len(parts) - 1) \div 2) |-> parts[2 * i]]
NumbersOf(id) == [i \in 1..Len(CountsOf(id)) |-> int(CountsOf(id)[i])]
Present(id) == Range(TagsOf(id))
Times(s, x) == Cardinality({i \in 1..Len(s) : s[i] = x})

\* C12: update_id of a well-formed id and a species in it raises exactly
\* that species' count by one and leaves the prefix, the species order and
\* every other count as they were; hence calls for different species
\* commute, and k calls for a species, however interleaved with calls for
\* others, raise its count by exactly k.
C12_AdvanceExactlyOne ==
    pc = "update_id" =>
        /\ PrefixOf(current_id) = PrefixOf(first_id)
        /\ TagsOf(current_id) = TagsOf(first_id)
        /\ \A i \in 1..Len(TagsOf(first_id)) :
              NumbersOf(current_id)[i] =
                  NumbersOf(first_id)[i] + Times(advances, TagsOf(first_id)[i])
        /\ current_id = format_id(PrefixOf(first_id), TagsOf(first_id),
                                  NumbersOf(current_id))
        /\ \A x \in Present(current_id) :
              LET next_id == update_id(current_id, x)
              IN /\ PrefixOf(next_id) = PrefixOf(current_id)
                 /\ TagsOf(next_id) = TagsOf(current_id)
                 /\ \A i \in 1..Len(TagsOf(current_id)) :
                       NumbersOf(next_id)[i] =
                           NumbersOf(current_id)[i]
                             + (IF TagsOf(current_id)[i] = x THEN 1 ELSE 0)
        /\ \A x, y \in Present(current_id) :
              update_id(update_id(current_id, x), y) =
                  update_id(update_id(current_id, y), x)

\* two calls for one species with a call for another in between, one of
\* the counts carried from 999 to 1000
C12_Witness ==
    /\ pc = "update_id"
    /\ Len(advances) = 3
    /\ advances[1] = advances[3]
    /\ advances[1] # advances[2]
    /\ Range(advances) \subseteq Present(first_id)
    /\ \E i \in 1..Len(TagsOf(first_id)) :
          NumbersOf(first_id)[i] = 999 /\ NumbersOf(current_id)[i] > 999

\* C19: update_id called with a species that has no slot in the id ends
\* in an error; it does not return an id with no count advanced.
C19_AbsentSpeciesFails ==
    (advances # <<>> /\ advances[Len(advances)] \notin Present(first_id)) =>
        /\ pc = "raised"
        /\ error # "none"

RECURSIVE Factorial(_)
Factorial(n) == IF n = 0 THEN 1 ELSE n * Factorial(n - 1)

RECURSIVE ProductOfFactorials(_)
ProductOfFactorials(sizes) ==
    IF sizes = <<>> THEN 1
    ELSE Factorial(Head(sizes)) * ProductOfFactorials(Tail(sizes))

Multinomial(sizes) == Factorial(Sum(sizes)) \div ProductOfFactorials(sizes)

SpeciesOf(pathway) == [i \in 1..Len(pathway) |-> <<pathway[i][1]>>]

\* C13: for unit counts s_1..s_k of distinct species the pathway universe
\* holds exactly (s_1+...+s_k)! / (s_1! * ... * s_k!) pathways, each an
\* ordering of all the units, no two the same sequence of species; with
\* 0 or 1 units in all it holds at most one pathway.
C13_DistinctPermutations ==
    \A k \in 1..Len(invocations) :
        invocations[k].done =>
            LET universe == invocations[k].complete_pathways
            IN /\ Len(universe) = Multinomial(aggregate_sizes)
               /\ \A i, j \in 1..Len(universe) :
                     i # j => SpeciesOf(universe[i]) # SpeciesOf(universe[j])
               /\ \A i \in 1..Len(universe) :
                     /\ Len(universe[i]) = Sum(aggregate_sizes)
                     /\ \A idx \in 1..Len(aggregate_sizes) :
                           Times(SpeciesOf(universe[i]), <<seed_names[idx]>>)
                               = aggregate_sizes[idx]
               /\ Sum(aggregate_sizes) <= 1 => Len(universe) <= 1

\* two units of one species and one of another: three pathways, not six
C13_Witness ==
    /\ invocations # <<>>
    /\ invocations[1].done
    /\ Sum(aggregate_sizes) = 3
    /\ Len(aggregate_sizes) = 2
    /\ Len(invocations[1].complete_pathways) = 3

\* C14: for the same molecules and sizes, an invocation with window (f, n)
\* and a separate one with window (f + n, m) process together exactly the
\* pathways, in the same order, that one invocation with window (f, n + m)
\* processes, none twice and none skipped; number_of_pathways = 0 selects
\* every pathway from first_pathway to the end.
C14_WindowsCompose ==
    (pc = "windows" /\ \A k \in 1..Len(invocations) : invocations[k].done) =>
        LET both == invocations[1].pathways_to_calculate
                      \o invocations[2].pathways_to_calculate
            whole == invocations[4].complete_pathways
            f == invocations[4].first_pathway
        IN /\ both = invocations[3].pathways_to_calculate
           /\ \A i, j \in 1..Len(both) : i # j => both[i] # both[j]
           /\ invocations[4].pathways_to_calculate =
                 [i \in 1..(IF Len(whole) > f THEN Len(whole) - f ELSE 0) |->
                    whole[f + i]]

\* what add_one makes or runs for the seed numbered k
SeedTouched(k) ==
    \/ \E d \in dirs : d[Len(d)] = <<"seed_">> \o fmt03(k)
    \/ \E r \in loose_reports : SubSeq(r[1].name, 1, 3) = fmt03(k)

\* C15: add_one leaves at entry only with StopIteration and before a seed
\* only with None, in both cases without making a directory, generating
\* orientations or optimising anything; after such a return the seed it
\* was about to start and every later one are untouched and nothing was
\* selected; a list, [] included, is returned only after every seed was
\* processed.
C15_StopReturnsSentinel ==
    /\ [][(pc = "add_one" /\ pc' = "returned") =>
             /\ ret' = StopIterationValue
             /\ UNCHANGED <<dirs, cwd, not_converged, loose_reports,
                            normal_reports, list_of_optimized_molecules>>]_vars
    /\ [][(pc = "seeds" /\ seed_count < Len(seeds.items) /\ pc' = "returned") =>
             /\ ret' = NoneValue
             /\ UNCHANGED <<dirs, cwd, not_converged, loose_reports,
                            normal_reports, list_of_optimized_molecules>>]_vars
    /\ []((pc = "returned" /\ IsCancelled(ret)) =>
             /\ ret.kind # "list"
             /\ ret # List(<<>>)
             /\ \A k \in seed_count..(Len(seeds.items) - 1) : ~SeedTouched(k)
             /\ normal_reports = {}
             /\ \A d \in dirs : d[Len(d)] # <<"selected">>)
    /\ []((pc = "returned" /\ ret.kind = "list") =>
             /\ seed_count = Len(seeds.items)
             /\ \A k \in 0..(seed_count - 1) : SeedTouched(k) \/ number_of_orientations = 0)

\* the stop file appears after the first seed converged candidates: None
\* is returned with the second seed untouched
C15_Witness ==
    /\ pc = "returned"
    /\ ret = NoneValue
    /\ seed_count = 1
    /\ Len(seeds.items) = 2
    /\ list_of_optimized_molecules # <<>>
    /\ SeedTouched(0)

\* the directories of the steps 2 .. last
StepDirectories(last) ==
    {Append(starting_directory, <<"aggregate_">> \o fmt03(k)) : k \in 2..last}

\* C16: solvate numbers its growth steps 2, 3, ..., runs at most
\* aggregate_size of them, and gives each the value the step before
\* returned (the first the seeds solvate was given); when the seed list is
\* empty at the start of a step, the first included, solvate returns
\* without making that step's directory or calling add_one again.
C16_StepsAndExhaustion ==
    /\ [](pc \in {"steps", "returned", "raised"} =>
             /\ total_calls <= aggregate_size
             /\ (pc = "steps" \/ total_calls >= 1) =>
                   /\ aggregation_counter = total_calls + 2
                   /\ dirs = StepDirectories(aggregation_counter - 1)
             /\ total_calls >= 1 =>
                   /\ last_call.aggregate_id = fmt03(total_calls + 1)
                   /\ last_call.seeds.kind = "list"
                   /\ last_call.seeds.items # <<>>
             /\ total_calls >= 2 =>
                   \A x \in Range(last_call.seeds.items) :
                       x.name = fmt03(total_calls))
    /\ [][total_calls' # total_calls =>
             /\ total_calls' = total_calls + 1
             /\ last_call'.seeds = seeds]_vars
    /\ [][(pc \in {"solvate", "steps"} /\ seeds = List(<<>>)) =>
             /\ dirs' = dirs
             /\ total_calls' = total_calls
             /\ pc = "steps" => pc' = "returned"]_vars

\* the second step grew nothing, with steps still to go: solvate returned
C16_Witness ==
    /\ pc = "returned"
    /\ seeds = List(<<>>)
    /\ total_calls = 2
    /\ aggregate_size > 2
    /\ dirs = StepDirectories(3)

\* C17: whenever aggregate or solvate is about to start a growth step, and
\* whenever it has returned, the working directory is its starting
\* directory, whichever way the add_one call before came back; every step
\* directory is made directly in the starting directory, none inside the
\* directory of another step.
C17_DirectoryRestored ==
    /\ pc \in {"pathways", "steps", "returned"} => cwd = starting_directory
    /\ \A d \in dirs :
          \/ d = starting_directory
          \/ /\ Len(d) = Len(starting_directory) + 1
             /\ SubSeq(d, 1, Len(d) - 1) = starting_directory

\* a step was started after a step whose add_one returned from inside
\* 'selected' (only the final selection returns two structures)
C17_Witness ==
    /\ pc \in {"pathways", "steps"}
    /\ total_calls >= 2
    /\ last_call.seeds.kind = "list"
    /\ Len(last_call.seeds.items) = 2
    /\ cwd = starting_directory
    /\ Cardinality(dirs) >= 2

\* C18: on every exit path of add_one the working directory at return is
\* the working directory at entry (InitAddOne enters it in <<>>).
C18_AddOneKeepsDirectory ==
    pc = "returned" => (saved_cwd = <<>> /\ cwd = <<>>)

\* the pathway index a step directory's name ends with
IndexOf(d) ==
    LET parts == split(d[Len(d)], "_")
    IN int(parts[Len(parts)])

\* the counts of the id a step directory is named after, added up
TotalOf(d) ==
    LET parts == split(d[Len(d)], "_")
        id_parts == SubSeq(parts, 1, Len(parts) - 1)
    IN Sum([i \in 1..((Len(id_parts) - 1) \div 2) |-> int(id_parts[2 * i + 1])])

StepDirs == dirs \ {starting_directory}

\* C20: every growth step of aggregate makes a directory no step before
\* made: its name is the advanced id and the pathway's absolute index,
\* which lies in the window first_pathway .. first_pathway + (pathways
\* selected) - 1, so that runs over disjoint windows share no directory;
\* along a pathway the id's total count grows with every step.
C20_DistinctStepDirectories ==
    /\ [][total_calls' # total_calls =>
             /\ Cardinality(dirs') = Cardinality(dirs) + 1
             /\ \A d \in dirs' \ dirs :
                   /\ d = Append(starting_directory,
                                 ag_id' \o <<"_">> \o fmt03(first_pathway + pathway_index - 1))
                   /\ d \notin dirs
                   /\ TotalOf(d) = monomer_index + 1]_vars
    /\ [](pc \in {"pathways", "returned", "raised"} =>
             /\ Cardinality(StepDirs) = total_calls
             /\ \A d \in StepDirs :
                   /\ IndexOf(d) >= first_pathway
                   /\ IndexOf(d) < first_pathway + Len(pathways_to_calculate)
                   /\ IndexOf(d) <= outside_counter)

\* steps of two pathways of one run that reach the same id
C20_Witness ==
    /\ pc = "pathways"
    /\ \E d, e \in StepDirs :
          /\ d # e
          /\ IndexOf(d) # IndexOf(e)
          /\ SubSeq(d[Len(d)], 1, Len(d[Len(d)]) - 4)
                = SubSeq(e[Len(e)], 1, Len(e[Len(e)]) - 4)

====
